---- MODULE Spec2Model ----
(***************************************************************************)
(* State-machine model of the ai-assistant-front client: the auth session  *)
(* store (AuthProvider + authService), the three axios clients with their  *)
(* interceptors, the route guard, the chat and dashboard-catalog requests, *)
(* the profile screen and the SupersetDashboard embedding component.       *)
(*                                                                         *)
(* One browser tab is modelled.  localStorage survives page loads; all     *)
(* React state and every request in flight is lost on a page load.         *)
(***************************************************************************)
EXTENDS Integers, FiniteSets, Sequences, TLC

(* ------------------------------ bounds --------------------------------- *)
NumTokens == 2
NumUsers == 1
MaxInflight == 2
MaxTurns == 2
\* The longest transcript of the chat-only specification.
MaxChatTurns == 4
\* The most clock ticks (milliseconds) between two consecutive readings of
\* Date.now() by a chat screen.
MaxGap == 1

(* ------------------------------ values --------------------------------- *)
None == 0
Tokens == 1..NumTokens
Users == 1..NumUsers
Uuids == {"A", "B"}
Statuses == {"ok", "401", "err", "net"}

\* "home" stands for every protected screen that keeps no state of its own
\* and calls no service (/, /busher).
Protected == {"home", "dashboards", "dashboard", "chat", "profile"}
Public == {"login", "signup"}
AllRoutes == Protected \cup Public \cup {"other"}
\* The values of the :dashboardUuid parameter at location r.
UuidsAt(r) == IF r = "dashboard" THEN Uuids ELSE {None}

\* A text is a sequence of symbols.  What the user types is made of the
\* characters " " and "q"; a message constant is a text of one symbol.
Blank == << >>
Queries == {Blank, <<" ">>, <<" ", "q", " ">>}
BackendMessage == <<"response.data.message">>
AxiosMessage == <<"error.message of the AxiosError">>
OriginalMessage == <<"error.message of the Error">>
ResultText == <<"result">>

\* What an awaited apiClient call can settle with, as far as handleError
\* tells the cases apart: a 2xx response; an AxiosError with a response
\* (whose data.message is `message`, Blank when it has none); an AxiosError
\* with a request and no response; an AxiosError with neither (whose own
\* message is `message`); another Error; a value that is no Error.
Fulfilled == [kind |-> "ok", status |-> "ok", message |-> Blank]
Rejections ==
  [kind : {"response"}, status : {"401", "err"}, message : {Blank, BackendMessage}]
    \cup [kind : {"request"}, status : {"net"}, message : {Blank}]
    \cup [kind : {"setup"}, status : {"setup"}, message : {Blank, AxiosMessage}]
    \cup [kind : {"error"}, status : {"exc"}, message : {OriginalMessage}]
    \cup [kind : {"other"}, status : {"unknown"}, message : {Blank}]
Outcomes == {Fulfilled} \cup Rejections

VARIABLES
  storage,       \* localStorage: authToken, refreshToken, user
  user,          \* AuthProvider state `user`
  isLoading,     \* AuthProvider state `isLoading`
  appPc,         \* "boot": the initAuth effect has not run yet; "ready"
  navPending,    \* window.location.href = '/login' assigned, page not yet reloaded
  route,         \* current router location
  dashboardUuid, \* :dashboardUuid route parameter (None off the dashboard route)
  inflight,      \* requests sent and not yet answered
  loginBusy,     \* LoginPage state `isLoading`
  signupBusy,    \* SignupPage state `isLoading`
  chatLoading,   \* ChatPage state `isLoading`
  messages,      \* ChatPage state `messages`: the transcript
  listPc,        \* DashboardListPage: "none" | "effect" | "loading" | "loaded" | "error"
  dashPc,        \* SupersetDashboard: "none" | "effect" | "idle" | "token"
  loading,       \* SupersetDashboard state `loading`
  error,         \* SupersetDashboard state `error` (FALSE = null)
  lastEvent      \* history: the response or navigation handled by the last step

vars == <<storage, user, isLoading, appPc, navPending, route, dashboardUuid,
          inflight, loginBusy, signupBusy, chatLoading, messages, listPc,
          dashPc, loading, error, lastEvent>>

EmptyStorage == [authToken |-> None, refreshToken |-> None, user |-> None]

\* Form data with no keys.
NoForm == << >>

\* `data` is the message the settled request carried, `text` the text the
\* handler made of it (for a send: the query).
NoEvent == [op |-> "none", client |-> "none", status |-> "none",
            tok |-> None, usr |-> None, thrown |-> FALSE,
            data |-> Blank, text |-> Blank, form |-> NoForm, issues |-> {}]

Event(op, client, status, tok, usr, thrown) ==
  [op |-> op, client |-> client, status |-> status,
   tok |-> tok, usr |-> usr, thrown |-> thrown,
   data |-> Blank, text |-> Blank, form |-> NoForm, issues |-> {}]

Texts(e, data, text) == [e EXCEPT !.data = data, !.text = text]

\* History of a form submission: the data handed to safeParse and the paths
\* of the issues it reported.
Submitted(e, form, issues) == [e EXCEPT !.form = form, !.issues = issues]

(* -------------------------- axios interceptors ------------------------- *)
\* The value of the Authorization header: the token t stands for "Bearer t",
\* None for a request without the header.
AuthRequestInterceptor(st) ==
  IF st.authToken # None THEN st.authToken ELSE None

ChatRequestInterceptor(st) ==
  IF st.authToken # None THEN st.authToken ELSE None

\* Mutant: the interceptor returns the config without setting the header.
SupersetRequestInterceptor_NoHeader(st) == None

SupersetRequestInterceptor(st) ==
  IF st.authToken # None THEN st.authToken ELSE None

\* Response interceptors: the storage after the interceptor ran, and whether
\* it assigned window.location.href.
\* Mutant: the interceptor tears the session down on every failure status.
AuthResponseInterceptor_AnyError(st, status) ==
  IF status # "ok"
    THEN [st |-> [st EXCEPT !.authToken = None, !.user = None], nav |-> TRUE]
    ELSE [st |-> st, nav |-> FALSE]

AuthResponseInterceptor(st, status) ==
  IF status = "401"
    THEN [st |-> [st EXCEPT !.authToken = None, !.user = None], nav |-> TRUE]
    ELSE [st |-> st, nav |-> FALSE]

\* Mutant: the interceptor removes the session and does not leave the page.
ChatResponseInterceptor_NoRedirect(st, status) ==
  IF status = "401"
    THEN [st |-> [st EXCEPT !.authToken = None, !.user = None], nav |-> FALSE]
    ELSE [st |-> st, nav |-> FALSE]

ChatResponseInterceptor(st, status) ==
  IF status = "401"
    THEN [st |-> [st EXCEPT !.authToken = None, !.user = None], nav |-> TRUE]
    ELSE [st |-> st, nav |-> FALSE]

\* supersetService registers a request interceptor only.
SupersetResponseInterceptor(st, status) ==
  [st |-> st, nav |-> FALSE]

(* ------------------------------ authSchema ----------------------------- *)
\* A field value is a sequence of characters; form data is a function from
\* the keys it has to their values.
Str(n) == [i \in 1..n |-> "x"]

\* What the user can have typed into the forms.
Emails == {Str(1), <<"x", "@", "x">>}
Passwords == {Str(5), Str(6)}
Usernames == {Str(2), Str(3)}
Phones == {<<"0", "9", "1", "2">>}

\* LoginPage: formData = { email, password }.
LoginForms == [email : Emails, password : Passwords]

\* SignupPage: formData has the keys of SignupData.
SignupForms == [username : Usernames, phone : Phones,
                password : Passwords, password_confirm : Passwords]

\* z.string().email(): some text, an "@", some text.
IsEmail(v) == \E i \in 2..(Len(v) - 1) : v[i] = "@"

emailSchema(v) == Len(v) >= 1 /\ IsEmail(v)
passwordSchema(v) == Len(v) >= 6
nameSchema(v) == Len(v) >= 2
usernameSchema(v) == Len(v) >= 3

\* The schema that the shapes of loginSchema and signupSchema give to key k,
\* applied to the string v.
FieldSchema(k, v) ==
  CASE k = "username" -> usernameSchema(v)
    [] k = "email" -> emailSchema(v)
    [] k = "password" -> passwordSchema(v)
    [] k \in {"firstName", "lastName"} -> nameSchema(v)
    [] k = "confirmPassword" -> TRUE

\* The paths of the issues z.object(shape).safeParse(data) reports: a key of
\* the shape that data lacks is undefined, which z.string() rejects; keys of
\* data outside the shape are ignored.
ObjectIssues(shape, data) ==
  {k \in shape : k \notin DOMAIN data \/ ~FieldSchema(k, data[k])}

loginSchema(data) == ObjectIssues({"email", "password"}, data)

\* The refinement runs on data that passed the object schema.
signupSchema(data) ==
  LET issues == ObjectIssues({"username", "email", "password", "firstName",
                              "lastName", "confirmPassword"}, data)
  IN IF issues # {} THEN issues
     ELSE IF data.password # data.confirmPassword THEN {"confirmPassword"}
     ELSE {}

(* ------------------------------ authService ---------------------------- *)
\* Mutant: the setItem('authToken', token) call is missing.
StoreSession_NoToken(st, token, refreshToken, u) ==
  [authToken |-> st.authToken,
   refreshToken |-> IF refreshToken # None THEN refreshToken ELSE st.refreshToken,
   user |-> u]

\* login / signup, success path: the three setItem calls.
StoreSession(st, token, refreshToken, u) ==
  [authToken |-> token,
   refreshToken |-> IF refreshToken # None THEN refreshToken ELSE st.refreshToken,
   user |-> u]

\* Mutant: the finally block removes the bearer token only.
LogoutClear_TokenOnly(st) ==
  [st EXCEPT !.authToken = None]

\* logout, finally block: the three removeItem calls.
LogoutClear(st) ==
  [st EXCEPT !.authToken = None, !.refreshToken = None, !.user = None]

\* Mutant: every failure is reported with the generic message.
AuthHandleError_Generic(rej) == <<"An unexpected error occurred">>

\* authService.handleError: the message of the Error it returns.
AuthHandleError(rej) ==
  CASE rej.kind = "response" ->
         IF rej.message # Blank THEN rej.message ELSE <<"Server error occurred">>
    [] rej.kind = "request" -> <<"Network error. Please check your connection.">>
    [] rej.kind = "setup" ->
         IF rej.message # Blank THEN rej.message ELSE <<"An unexpected error occurred">>
    [] rej.kind = "error" -> rej.message
    [] OTHER -> <<"An unexpected error occurred">>

\* Mutant: initAuth never restores a user.
InitialUser_Never(st) == None

\* authService.isAuthenticated and getCurrentUser as used by initAuth.
InitialUser(st) ==
  IF st.authToken # None /\ st.user # None THEN st.user ELSE None

(* ------------------------------ chatService ---------------------------- *)
\* The three fallback texts of chatService.handleError.
ChatServerError == <<"chat: server error occurred">>
ChatNetworkError == <<"chat: network error, check your connection">>
ChatUnexpectedError == <<"chat: unexpected error occurred">>

\* Mutant: the message field of the response is used without a fallback.
ChatHandleError_NoFallback(rej) ==
  CASE rej.kind = "response" -> rej.message
    [] rej.kind = "request" -> ChatNetworkError
    [] rej.kind = "setup" ->
         IF rej.message # Blank THEN rej.message ELSE ChatUnexpectedError
    [] rej.kind = "error" -> rej.message
    [] OTHER -> ChatUnexpectedError

\* chatService.handleError: the message of the Error it returns.
ChatHandleError(rej) ==
  CASE rej.kind = "response" ->
         IF rej.message # Blank THEN rej.message ELSE ChatServerError
    [] rej.kind = "request" -> ChatNetworkError
    [] rej.kind = "setup" ->
         IF rej.message # Blank THEN rej.message ELSE ChatUnexpectedError
    [] rej.kind = "error" -> rej.message
    [] OTHER -> ChatUnexpectedError

(* -------------------------------- ChatPage ----------------------------- *)
\* Mutant: the input is tested without trimming it.
Trim_None(s) == s

\* String.prototype.trim: s without its leading and trailing whitespace.
Trim(s) ==
  LET ink == {i \in 1..Len(s) : s[i] # " "}
  IN IF ink = {} THEN Blank
     ELSE SubSeq(s, CHOOSE i \in ink : \A j \in ink : i <= j,
                    CHOOSE i \in ink : \A j \in ink : i >= j)

\* One entry of the transcript.
Message(id, sender, text) == [id |-> id, sender |-> sender, text |-> text]

\* One turn as the screen shows it: message.id is the React key only.
Turn(sender, text) == [sender |-> sender, text |-> text]
Turns(msgs) == [i \in 1..Len(msgs) |-> Turn(msgs[i].sender, msgs[i].text)]

\* The value Date.now() had when the last entry of the transcript was made:
\* a user entry has it as id, an assistant entry has it plus one.
LastReading(msgs) ==
  LET last == msgs[Len(msgs)]
  IN IF last.sender = "user" THEN last.id ELSE last.id - 1

\* The values Date.now() can have in the handler that adds the next entry.
\* Readings are counted from the first send of the screen; the clock does
\* not run backwards.
DateNow(msgs) ==
  IF msgs = << >> THEN {0}
  ELSE {LastReading(msgs) + gap : gap \in 0..MaxGap}

\* Mutant: the new turn replaces the transcript.
AppendTurn_Replace(prev, turn) == <<turn>>

\* setMessages(prev => [...prev, turn]).
AppendTurn(prev, turn) == Append(prev, turn)

(* ------------------------------ route guard ---------------------------- *)
\* AuthProvider: the keys of the context value handed to the screens.
AuthContextValue ==
  {"user", "isAuthenticated", "isLoading", "login", "signup", "logout"}

\* AuthProvider: isAuthenticated = !!user.
IsAuthenticated(u) == u # None

\* Mutant: the redirect branch is missing.
PrivateRoute_NoRedirect(isAuthenticated, authLoading) ==
  IF authLoading THEN "spinner" ELSE "children"

PrivateRoute(isAuthenticated, authLoading) ==
  IF ~isAuthenticated /\ ~authLoading THEN "redirect"
  ELSE IF authLoading THEN "spinner"
  ELSE "children"

\* The location after the router's <Navigate> elements have acted.
Redirect(r, u, l) ==
  IF r = "other" THEN "login"
  ELSE IF r \in Protected /\ PrivateRoute(IsAuthenticated(u), l) = "redirect" THEN "login"
  ELSE r

\* The screen that is on display at location r.
Shown(r, u, l) ==
  IF r \in Protected
    THEN IF PrivateRoute(IsAuthenticated(u), l) = "children" THEN r ELSE "spinner"
    ELSE r

(* ---------------------------- SupersetDashboard ------------------------ *)
\* mountRef.current is non-null exactly when the last render returned the
\* <div ref={mountRef}>, i.e. took neither the loading nor the error branch.
MountRefAttached(ld, err) == ~ld /\ ~err


(* ------------------------------ rendering ------------------------------ *)
\* The page component whose state a response to request `op` updates.
OwnerPage(op) ==
  CASE op = "login" -> "login"
    [] op = "signup" -> "signup"
    [] op = "chat" -> "chat"
    [] op = "catalog" -> "dashboards"
    [] OTHER -> "nowhere"

\* The values a handler leaves behind, before React renders them.
Cur ==
  [route |-> route, uuid |-> dashboardUuid, user |-> user,
   isLoading |-> isLoading, inflight |-> inflight, loginBusy |-> loginBusy,
   signupBusy |-> signupBusy, chatLoading |-> chatLoading,
   messages |-> messages, listPc |-> listPc, dashPc |-> dashPc]

\* One React commit: the router redirects, screens that are no longer shown
\* unmount (their local state is dropped and their pending responses become
\* stale), screens that are newly shown mount with their initial state and
\* their mount effect pending.
Render(d) ==
  LET rr == Redirect(d.route, d.user, d.isLoading)
      sOld == Shown(route, user, isLoading)
      sNew == Shown(rr, d.user, d.isLoading)
      kept(page) == sOld = page /\ sNew = page
      uu == IF rr = "dashboard" THEN d.uuid ELSE None
  IN [route |-> rr,
      uuid |-> uu,
      loginBusy |-> kept("login") /\ d.loginBusy,
      signupBusy |-> kept("signup") /\ d.signupBusy,
      chatLoading |-> kept("chat") /\ d.chatLoading,
      messages |-> IF kept("chat") THEN d.messages ELSE << >>,
      listPc |-> IF sNew = "dashboards"
                   THEN IF sOld = "dashboards" THEN d.listPc ELSE "effect"
                   ELSE "none",
      dashPc |-> IF sNew = "dashboard"
                   THEN IF sOld = "dashboard" /\ uu = dashboardUuid
                          THEN d.dashPc ELSE "effect"
                   ELSE "none",
      inflight |-> {[q EXCEPT !.live = q.live /\ kept(OwnerPage(q.op))] :
                      q \in d.inflight}]

Apply(d) ==
  LET n == Render(d)
  IN /\ user' = d.user
     /\ isLoading' = d.isLoading
     /\ route' = n.route
     /\ dashboardUuid' = n.uuid
     /\ loginBusy' = n.loginBusy
     /\ signupBusy' = n.signupBusy
     /\ chatLoading' = n.chatLoading
     /\ messages' = n.messages
     /\ listPc' = n.listPc
     /\ dashPc' = n.dashPc
     /\ inflight' = n.inflight

\* A request in flight: the operation that awaits it and whether the page
\* component that issued it is still mounted.
Request(op, live) == [op |-> op, live |-> live]

\* What the request q can settle with.  The message an answer carries is
\* shown by the page component that awaits it; for a request whose component
\* is gone the answers are told apart by status only.
Answers(q) ==
  IF q.live
    THEN Outcomes
    ELSE {o \in Outcomes : o.status \in Statuses /\ o.message = Blank}

\* History of a send: the client and the Authorization header it attached.
Sent(op, client, hdr) == Event(op, client, "sent", hdr, None, FALSE)

\* The user acts on a page whose mount effects have run, and starts nothing
\* new while the browser is leaving the page.
UserCanAct == appPc = "ready" /\ ~navPending

CanSend == Cardinality(inflight) < MaxInflight

(* ------------------------------- page load ----------------------------- *)
\* The state of a freshly loaded page at location r.
Boot(r, u) ==
  /\ appPc' = "boot"
  /\ navPending' = FALSE
  /\ user' = None
  /\ isLoading' = TRUE
  /\ route' = Redirect(r, None, TRUE)
  /\ dashboardUuid' = u
  /\ inflight' = {}
  /\ loginBusy' = FALSE
  /\ signupBusy' = FALSE
  /\ chatLoading' = FALSE
  /\ messages' = << >>
  /\ listPc' = "none"
  /\ dashPc' = "none"
  /\ loading' = TRUE
  /\ error' = FALSE
  /\ lastEvent' = Event("load", "none", r, None, None, FALSE)

Init ==
  /\ storage = EmptyStorage
  /\ appPc = "boot"
  /\ navPending = FALSE
  /\ user = None
  /\ isLoading = TRUE
  /\ route = "home"
  /\ dashboardUuid = None
  /\ inflight = {}
  /\ loginBusy = FALSE
  /\ signupBusy = FALSE
  /\ chatLoading = FALSE
  /\ messages = << >>
  /\ listPc = "none"
  /\ dashPc = "none"
  /\ loading = TRUE
  /\ error = FALSE
  /\ lastEvent = NoEvent

\* The user opens a URL in the tab (or reloads it).
UserLoad ==
  /\ ~navPending
  /\ \E r \in AllRoutes : \E u \in UuidsAt(r) : Boot(r, u)
  /\ UNCHANGED storage

\* The navigation started by a response interceptor completes.
ForcedReload ==
  /\ navPending
  /\ Boot("login", None)
  /\ UNCHANGED storage

\* AuthProvider: the initAuth effect.
InitAuth ==
  /\ appPc = "boot"
  /\ appPc' = "ready"
  /\ Apply([Cur EXCEPT !.user = InitialUser(storage), !.isLoading = FALSE])
  /\ lastEvent' = Event("initAuth", "none", "done", None, None, FALSE)
  /\ UNCHANGED <<storage, navPending, loading, error>>

\* Client-side navigation: a link, a sidebar item, the history buttons.
Navigate ==
  /\ UserCanAct
  /\ \E r \in AllRoutes : \E u \in UuidsAt(r) :
       /\ Apply([Cur EXCEPT !.route = r, !.uuid = u])
       /\ lastEvent' = Event("navigate", "none", r, None, None, FALSE)
  /\ UNCHANGED <<storage, appPc, navPending, loading, error>>


(* --------------------------- login and signup -------------------------- *)
\* LoginPage.handleSubmit -> AuthProvider.login -> authService.login, up to
\* the await of the POST.
\* A rejected submission sets the page's fieldErrors and returns.
LoginSubmit ==
  /\ UserCanAct
  /\ Shown(route, user, isLoading) = "login"
  /\ ~loginBusy
  /\ \E formData \in LoginForms :
       LET issues == loginSchema(formData) IN
       IF issues # {}
         THEN /\ lastEvent' = Submitted(Event("login", "none", "invalid",
                                              None, None, FALSE),
                                        formData, issues)
              /\ UNCHANGED <<storage, user, isLoading, appPc, navPending,
                             route, dashboardUuid, inflight, loginBusy,
                             signupBusy, chatLoading, messages, listPc,
                             dashPc, loading, error>>
         ELSE /\ CanSend
              /\ Apply([Cur EXCEPT
                   !.isLoading = TRUE,
                   !.loginBusy = TRUE,
                   !.inflight = inflight \cup
                      {Request("login", TRUE)}])
              /\ lastEvent' = Submitted(Sent("login", "auth",
                                              AuthRequestInterceptor(storage)),
                                        formData, issues)
              /\ UNCHANGED <<storage, appPc, navPending, loading, error>>

\* SignupPage.handleSubmit -> AuthProvider.signup -> authService.signup, up
\* to the await of the POST.  The page hands its formData, which has the keys
\* of SignupData, to signupSchema: the schema's email, firstName, lastName
\* and confirmPassword are undefined in it, so safeParse reports issues for
\* every formData and handleSubmit returns before it calls signup; no
\* reachable state takes the ELSE branch, and no signup POST is ever answered.
SignupSubmit ==
  /\ UserCanAct
  /\ Shown(route, user, isLoading) = "signup"
  /\ ~signupBusy
  /\ \E formData \in SignupForms :
       LET issues == signupSchema(formData) IN
       IF issues # {}
         THEN /\ lastEvent' = Submitted(Event("signup", "none", "invalid",
                                              None, None, FALSE),
                                        formData, issues)
              /\ UNCHANGED <<storage, user, isLoading, appPc, navPending,
                             route, dashboardUuid, inflight, loginBusy,
                             signupBusy, chatLoading, messages, listPc,
                             dashPc, loading, error>>
         ELSE /\ CanSend
              /\ Apply([Cur EXCEPT
                   !.isLoading = TRUE,
                   !.signupBusy = TRUE,
                   !.inflight = inflight \cup
                      {Request("signup", TRUE)}])
              /\ lastEvent' = Submitted(Sent("signup", "auth",
                                              AuthRequestInterceptor(storage)),
                                        formData, issues)
              /\ UNCHANGED <<storage, appPc, navPending, loading, error>>

\* The answer to a login POST (a signup POST would be handled by the same
\* code): the response interceptor, the rest of authService.login / signup,
\* of AuthProvider.login / signup and of the page's handleSubmit.
SessionResponse(q, out) ==
  LET status == out.status
      ic == AuthResponseInterceptor(storage, status) IN
  IF out.kind = "ok"
    THEN \E t \in Tokens, u \in Users : \E rt \in {None, t} :
           /\ storage' = StoreSession(storage, t, rt, u)
           /\ navPending' = navPending
           /\ Apply([Cur EXCEPT
                !.user = u,
                !.isLoading = FALSE,
                !.route = "home",
                !.loginBusy = IF q.op = "login" /\ q.live THEN FALSE ELSE loginBusy,
                !.signupBusy = IF q.op = "signup" /\ q.live THEN FALSE ELSE signupBusy,
                !.inflight = inflight \ {q}])
           /\ lastEvent' = Event(q.op, "auth", status, t, u, FALSE)
    ELSE /\ storage' = ic.st
         /\ navPending' = (navPending \/ ic.nav)
         /\ Apply([Cur EXCEPT
              !.isLoading = FALSE,
              !.loginBusy = IF q.op = "login" /\ q.live THEN FALSE ELSE loginBusy,
              !.signupBusy = IF q.op = "signup" /\ q.live THEN FALSE ELSE signupBusy,
              !.inflight = inflight \ {q}])
         /\ lastEvent' = Texts(Event(q.op, "auth", status, None, None, TRUE),
                                out.message, AuthHandleError(out))

LoginResponse ==
  /\ \E q \in inflight : \E out \in Answers(q) :
       /\ q.op = "login"
       /\ SessionResponse(q, out)
  /\ UNCHANGED <<appPc, loading, error>>

(* -------------------------------- logout ------------------------------- *)
\* Sidebar.handleLogout -> AuthProvider.logout -> authService.logout, up to
\* the await of the POST.  The sidebar is part of every protected screen.
LogoutStart ==
  /\ UserCanAct
  /\ Shown(route, user, isLoading) \in Protected
  /\ CanSend
  /\ Apply([Cur EXCEPT
       !.isLoading = TRUE,
       !.inflight = inflight \cup
          {Request("logout", FALSE)}])
  /\ lastEvent' = Sent("logout", "auth", AuthRequestInterceptor(storage))
  /\ UNCHANGED <<storage, appPc, navPending, loading, error>>

\* The answer to the logout POST: the response interceptor, the catch and
\* finally blocks of authService.logout and AuthProvider.logout, then
\* Sidebar's navigate('/login').
LogoutResponse ==
  /\ \E q \in inflight, status \in Statuses :
       LET ic == AuthResponseInterceptor(storage, status) IN
       /\ q.op = "logout"
       /\ storage' = LogoutClear(ic.st)
       /\ navPending' = (navPending \/ ic.nav)
       /\ Apply([Cur EXCEPT
            !.user = None,
            !.isLoading = FALSE,
            !.route = "login",
            !.inflight = inflight \ {q}])
       /\ lastEvent' = Event("logout", "auth", status, None, None, FALSE)
  /\ UNCHANGED <<appPc, loading, error>>

(* --------------------------------- chat -------------------------------- *)
\* ChatPage.handleSendMessage up to the await, called by the send button or
\* by the Enter key; the textarea and the button are disabled while a send
\* is in flight.  ChatWidget.handleSendMessage is the same code.
HandleSendMessage(limit) ==
  /\ Shown(route, user, isLoading) = "chat"
  /\ ~chatLoading
  /\ \E text \in Queries : \E now \in DateNow(messages) :
       IF Trim(text) = Blank
         THEN /\ lastEvent' = Texts(Event("chat", "chat", "rejected",
                                          None, None, FALSE), Blank, text)
              /\ UNCHANGED <<storage, user, isLoading, appPc, navPending,
                             route, dashboardUuid, inflight, loginBusy,
                             signupBusy, chatLoading, messages, listPc,
                             dashPc, loading, error>>
         ELSE /\ CanSend
              /\ Len(messages) + 2 <= limit
              /\ Apply([Cur EXCEPT
                   !.chatLoading = TRUE,
                   !.messages = AppendTurn(messages,
                                           Message(now, "user", text)),
                   !.inflight = inflight \cup
                      {Request("chat", TRUE)}])
              /\ lastEvent' = Texts(Sent("chat", "chat",
                                          ChatRequestInterceptor(storage)),
                                     Blank, text)
              /\ UNCHANGED <<storage, appPc, navPending, loading, error>>

\* The user sends a query; the transcript has room for MaxTurns turns.
ChatSend ==
  /\ UserCanAct
  /\ HandleSendMessage(MaxTurns)

\* Mutant: the finally block of handleSendMessage does not clear isLoading.
SendFinally_Kept(live, ld) == ld

\* The finally block of handleSendMessage: setIsLoading(false), which has no
\* effect on a component that is gone.
SendFinally(live, ld) == IF live THEN FALSE ELSE ld

\* The answer to the chat POST: the response interceptor, the catch of
\* chatService.sendMessage, then the try / catch / finally of
\* handleSendMessage.  handleError returns an Error in every case, so the
\* catch of handleSendMessage shows its message.
ChatResponse ==
  /\ \E q \in inflight : \E out \in Answers(q) :
     \E now \in IF q.live THEN DateNow(messages) ELSE {0} :
       LET ic == ChatResponseInterceptor(storage, out.status)
           text == IF out.kind = "ok" THEN ResultText ELSE ChatHandleError(out)
       IN
       /\ q.op = "chat"
       /\ storage' = ic.st
       /\ navPending' = (navPending \/ ic.nav)
       /\ Apply([Cur EXCEPT
            !.chatLoading = SendFinally(q.live, chatLoading),
            !.messages = IF q.live
                           THEN AppendTurn(messages,
                                           Message(now + 1, "assistant", text))
                           ELSE messages,
            !.inflight = inflight \ {q}])
       /\ lastEvent' = Texts(Event("chat", "chat", out.status, None, None,
                                   out.kind # "ok"), out.message, text)
  /\ UNCHANGED <<appPc, loading, error>>

(* ------------------------------- profile ------------------------------- *)
\* Calling the member `name` of the auth context value: a member the value
\* does not have is undefined, and calling it throws a TypeError.
CallContext(name) ==
  IF name \in AuthContextValue THEN "called" ELSE "typeError"

\* ProfilePage.handleRefreshProfile: the TypeError is thrown inside the try,
\* the catch shows its message and the finally clears the page's isLoading.
HandleRefreshProfile ==
  /\ UserCanAct
  /\ Shown(route, user, isLoading) = "profile"
  /\ Apply(Cur)
  /\ lastEvent' = Texts(Event("getProfile", "none", CallContext("getProfile"),
                              None, None, FALSE), Blank, OriginalMessage)
  /\ UNCHANGED <<storage, appPc, navPending, loading, error>>

\* ProfilePage.handleSave, likewise.
HandleSave ==
  /\ UserCanAct
  /\ Shown(route, user, isLoading) = "profile"
  /\ Apply(Cur)
  /\ lastEvent' = Texts(Event("updateProfile", "none",
                              CallContext("updateProfile"),
                              None, None, FALSE), Blank, OriginalMessage)
  /\ UNCHANGED <<storage, appPc, navPending, loading, error>>

(* --------------------------- dashboard catalog ------------------------- *)
\* DashboardListPage: the fetchDashboards effect, up to the await.
FetchDashboards ==
  /\ listPc = "effect"
  /\ CanSend
  /\ Apply([Cur EXCEPT
       !.listPc = "loading",
       !.inflight = inflight \cup
          {Request("catalog", TRUE)}])
  /\ lastEvent' = Sent("catalog", "superset", SupersetRequestInterceptor(storage))
  /\ UNCHANGED <<storage, appPc, navPending, loading, error>>

\* The text DashboardListPage shows for a rejection of getEmbeddedDashboards.
\* supersetService has no catch and no handleError, so the page receives the
\* AxiosError itself: err.message is axios' own message, whatever the body of
\* the response says.
FetchDashboardsError(rej) ==
  CASE rej.kind \in {"response", "request"} -> AxiosMessage
    [] rej.kind \in {"setup", "error"} -> rej.message
    [] OTHER -> <<"Failed to fetch dashboards">>

\* The answer to the catalog GET: the rest of getEmbeddedDashboards, then the
\* try / catch / finally of fetchDashboards.
CatalogResponse ==
  /\ \E q \in inflight : \E out \in {o \in Answers(q) : o.status \in Statuses} :
       LET status == out.status
           ic == SupersetResponseInterceptor(storage, status)
           text == IF out.kind = "ok" THEN Blank ELSE FetchDashboardsError(out)
       IN
       /\ q.op = "catalog"
       /\ storage' = ic.st
       /\ navPending' = (navPending \/ ic.nav)
       /\ Apply([Cur EXCEPT
            !.listPc = IF q.live
                         THEN IF status = "ok" THEN "loaded" ELSE "error"
                         ELSE listPc,
            !.inflight = inflight \ {q}])
       /\ lastEvent' = Texts(Event("catalog", "superset", status, None, None,
                                   FALSE), out.message, text)
  /\ UNCHANGED <<appPc, loading, error>>

(* ---------------------------- SupersetDashboard ------------------------ *)
\* The effect of SupersetDashboard: run() up to its first await or return.
\* setLoading(true) and setError(null) come first; run() returns at once when
\* mountRef.current is null.  The rest of run() (the SDK call and the
\* onDashboardLoad / onDashboardError calls) follows the guest-token await of
\* the THEN branch; `loading` starts TRUE and is cleared only there, so no
\* reachable state takes that branch.
DashEffect ==
  /\ dashPc = "effect"
  /\ loading' = TRUE
  /\ error' = FALSE
  /\ IF MountRefAttached(loading, error)
       THEN /\ CanSend
            /\ Apply([Cur EXCEPT
                 !.dashPc = "token",
                 !.inflight = inflight \cup
                    {Request("guestToken", TRUE)}])
            /\ lastEvent' = Sent("guestToken", "superset",
                                 SupersetRequestInterceptor(storage))
       ELSE /\ Apply([Cur EXCEPT !.dashPc = "idle"])
            /\ lastEvent' = NoEvent
  /\ UNCHANGED <<storage, appPc, navPending>>

Next ==
  \/ UserLoad
  \/ ForcedReload
  \/ InitAuth
  \/ Navigate
  \/ LoginSubmit
  \/ SignupSubmit
  \/ LoginResponse
  \/ LogoutStart
  \/ LogoutResponse
  \/ ChatSend
  \/ ChatResponse
  \/ HandleRefreshProfile
  \/ HandleSave
  \/ FetchDashboards
  \/ CatalogResponse
  \/ DashEffect

Spec == Init /\ [][Next]_vars

\* The program with a user who signs in and chats, and with room for a
\* transcript of several exchanges.
ChatSendLong ==
  /\ UserCanAct
  /\ HandleSendMessage(MaxChatTurns)

ChatNext ==
  \/ InitAuth
  \/ Navigate
  \/ LoginSubmit
  \/ LoginResponse
  \/ ForcedReload
  \/ ChatSendLong
  \/ ChatResponse

ChatSpec == Init /\ [][ChatNext]_vars

TypeOK ==
  /\ storage \in [authToken : Tokens \cup {None},
                  refreshToken : Tokens \cup {None},
                  user : Users \cup {None}]
  /\ user \in Users \cup {None}
  /\ isLoading \in BOOLEAN
  /\ route \in Protected \cup Public
  /\ Cardinality(inflight) <= MaxInflight
  /\ Len(messages) <= MaxTurns
  /\ \A i \in 1..Len(messages) : messages[i].sender \in {"user", "assistant"}


(* ======================================================================= *)
(*                                 Claims                                  *)
(* ======================================================================= *)

\* C1 (as stated): whichever client receives a response with status 401, the
\* bearer token and the user record are gone from storage and the browser
\* has been sent to the login screen.
C1_Any401TearsDownSession ==
  lastEvent.status = "401" =>
    /\ storage.authToken = None
    /\ storage.user = None
    /\ navPending

\* C2: right after a login or signup succeeded, the token and the user of the
\* response are in storage, the token is non-empty and the auth store is
\* authenticated as that user.
C2_SessionActiveAfterLogin ==
  (lastEvent.op \in {"login", "signup"} /\ lastEvent.status = "ok") =>
    /\ storage.authToken # None
    /\ storage.authToken = lastEvent.tok
    /\ storage.user = lastEvent.usr
    /\ IsAuthenticated(user)
    /\ user = lastEvent.usr

\* A login succeeded while the token of an earlier session was still stored.
C2_Witness ==
  /\ lastEvent.op = "login"
  /\ lastEvent.status = "ok"
  /\ lastEvent.tok = 2
  /\ storage.authToken = 2
  /\ IsAuthenticated(user)

\* C3 (as stated): after logout has completed, and after the auth or chat
\* client has handled a 401, none of the three persisted fields remains.
C3_AllThreeClearedTogether ==
  (\/ (lastEvent.op = "logout" /\ lastEvent.status \in Statuses)
   \/ (lastEvent.status = "401" /\ lastEvent.client \in {"auth", "chat"})) =>
    storage = EmptyStorage

\* C4: when logout completes, whatever the backend answered, storage holds no
\* token, refresh token or user, the auth store is anonymous and not
\* loading, and nothing was thrown to the caller.
C4_LogoutAlwaysClears ==
  (lastEvent.op = "logout" /\ lastEvent.status \in Statuses) =>
    /\ storage = EmptyStorage
    /\ user = None
    /\ ~IsAuthenticated(user)
    /\ ~isLoading
    /\ ~lastEvent.thrown

\* A logout completed although the backend could not be reached.
C4_Witness ==
  /\ lastEvent.op = "logout"
  /\ lastEvent.status = "net"
  /\ storage = EmptyStorage
  /\ user = None

\* C5: a request that one of the three clients sends while a bearer token is
\* stored carries that token in its Authorization header.
C5_RequestsCarryStoredToken ==
  (lastEvent.status = "sent" /\ storage.authToken # None) =>
    lastEvent.tok = storage.authToken

\* The catalog client sent a request with the token of the current session.
C5_Witness ==
  /\ lastEvent.status = "sent"
  /\ lastEvent.client = "superset"
  /\ storage.authToken # None
  /\ lastEvent.tok = storage.authToken

\* C6: a protected screen is on display, and a protected page component is
\* mounted, only while the auth store is authenticated; an unauthenticated
\* visitor with no auth check loading is never left on a protected location,
\* and never on an unknown one.
C6_RouteGuard ==
  /\ Shown(route, user, isLoading) \in Protected => IsAuthenticated(user)
  /\ (listPc # "none" \/ dashPc # "none" \/ chatLoading) => IsAuthenticated(user)
  /\ ~(route \in Protected /\ ~IsAuthenticated(user) /\ ~isLoading)
  /\ route \in Protected \cup Public

\* An anonymous visitor asked for a protected location and is at the login
\* screen.
C6_Witness ==
  /\ lastEvent.op = "navigate"
  /\ lastEvent.status \in Protected
  /\ ~IsAuthenticated(user)
  /\ ~isLoading
  /\ route = "login"

\* C7 (as stated): a mounted dashboard whose run() has nothing left to wait
\* for (no guest-token request in flight) has reported its outcome, so it is
\* no longer loading.
C7_EveryMountCompletes ==
  (/\ dashPc \notin {"none", "effect"}
   /\ ~\E q \in inflight : q.op = "guestToken") =>
    ~loading

\* C13: a call of handleSendMessage whose input is empty or consists of
\* whitespace only is rejected: it sends no request, no request is added to
\* those in flight and the transcript stays as it was.
C13_BlankQueryRejected ==
  [][(/\ lastEvent'.op = "chat"
      /\ lastEvent'.status \in {"sent", "rejected"}
      /\ \A i \in 1..Len(lastEvent'.text) : lastEvent'.text[i] = " ") =>
       /\ lastEvent'.status = "rejected"
       /\ inflight' = inflight
       /\ messages' = messages]_vars

\* A whitespace-only input was rejected while the transcript held an earlier
\* exchange.
C13_Witness ==
  /\ lastEvent.op = "chat"
  /\ lastEvent.status = "rejected"
  /\ lastEvent.text = <<" ">>
  /\ Len(messages) = 2
  /\ inflight = {}

C15_ChatErrorMessage ==
  (lastEvent.op = "chat" /\ lastEvent.thrown) =>
    /\ lastEvent.text # Blank
    /\ lastEvent.text =
         CASE lastEvent.status \in {"401", "err"} ->
                IF lastEvent.data # Blank THEN lastEvent.data ELSE ChatServerError
           [] lastEvent.status = "net" -> ChatNetworkError
           [] lastEvent.status \in {"setup", "exc"} /\ lastEvent.data # Blank ->
                lastEvent.data
           [] OTHER -> ChatUnexpectedError

\* A chat send was answered with a non-2xx response that has no message
\* field and the server-error text was shown.
C15_Witness ==
  /\ lastEvent.op = "chat"
  /\ lastEvent.status = "err"
  /\ lastEvent.thrown
  /\ lastEvent.data = Blank
  /\ lastEvent.text = ChatServerError
  /\ messages # << >>
  /\ Turns(messages)[Len(messages)] = Turn("assistant", ChatServerError)

\* C17: when the initAuth effect has run, the auth store is authenticated
\* exactly when storage holds a bearer token, and the initial loading flag is
\* cleared.
C17_InitialSession ==
  lastEvent.op = "initAuth" =>
    /\ IsAuthenticated(user) <=> storage.authToken # None
    /\ ~isLoading
    /\ appPc = "ready"

\* A page load found the token of an earlier session and restored its user.
C17_Witness ==
  /\ lastEvent.op = "initAuth"
  /\ storage.authToken # None
  /\ IsAuthenticated(user)
  /\ user = storage.user
  /\ ~isLoading

\* C18 (as stated): a login or signup that fails throws an Error with the
\* backend's message when the response has one and with the network-failure
\* message when there was no response, writes nothing to storage, leaves the
\* user of the auth store as it was and clears isLoading.
C18_FailedLoginWritesNothing ==
  [][(lastEvent'.op \in {"login", "signup"} /\ lastEvent'.thrown) =>
       /\ (lastEvent'.status \in {"401", "err"} /\ lastEvent'.data # Blank) =>
            lastEvent'.text = lastEvent'.data
       /\ lastEvent'.status = "net" =>
            lastEvent'.text = <<"Network error. Please check your connection.">>
       /\ lastEvent'.text # Blank
       /\ storage' = storage
       /\ user' = user
       /\ ~isLoading']_vars

\* C18 (amended): as stated, except that a rejection with status 401 removes
\* the stored bearer token and user record; no failure adds or replaces a
\* stored value.
C18_FailedLoginStoresNothing ==
  [][(lastEvent'.op \in {"login", "signup"} /\ lastEvent'.thrown) =>
       /\ (lastEvent'.status \in {"401", "err"} /\ lastEvent'.data # Blank) =>
            lastEvent'.text = lastEvent'.data
       /\ lastEvent'.status = "net" =>
            lastEvent'.text = <<"Network error. Please check your connection.">>
       /\ lastEvent'.text # Blank
       /\ storage' = IF lastEvent'.status = "401"
                       THEN [storage EXCEPT !.authToken = None, !.user = None]
                       ELSE storage
       /\ user' = user
       /\ ~isLoading']_vars

\* A login was rejected with a message of the backend while nobody was
\* signed in.
C18_Witness ==
  /\ lastEvent.op = "login"
  /\ lastEvent.status = "err"
  /\ lastEvent.thrown
  /\ lastEvent.text = BackendMessage
  /\ storage = EmptyStorage
  /\ user = None
  /\ ~isLoading

\* C19 (as stated): the auth store hands getProfile and updateProfile to the
\* screens, and after either has succeeded the stored user record and the
\* user of the auth store are the server's response.
C19_ProfileOperations ==
  /\ lastEvent.op \in {"getProfile", "updateProfile"} =>
       lastEvent.status # "typeError"
  /\ (lastEvent.op \in {"getProfile", "updateProfile"} /\ lastEvent.status = "ok") =>
       /\ storage.user = lastEvent.usr
       /\ user = lastEvent.usr

\* C20 (as stated): whenever the auth store is authenticated a bearer token
\* is stored; the stored token is removed, and the user of a running page is
\* dropped, only by logout or by a 401 response.
C20_SessionImpliesToken ==
  [][/\ IsAuthenticated(user') => storage'.authToken # None
     /\ (storage.authToken # None /\ storage'.authToken = None) =>
          (lastEvent'.op = "logout" \/ lastEvent'.status = "401")
     /\ (appPc = "ready" /\ appPc' = "ready" /\ user # None /\ user' = None) =>
          lastEvent'.op = "logout"]_vars

\* C20 (amended): as stated, except while the page is being left after a 401
\* response: from the response interceptor's removal of the token until the
\* login screen has loaded, the auth store of the old page is still
\* authenticated.
C20_SessionImpliesTokenUnlessLeaving ==
  [][/\ (IsAuthenticated(user') /\ ~navPending') => storage'.authToken # None
     /\ (storage.authToken # None /\ storage'.authToken = None) =>
          (lastEvent'.op = "logout" \/ lastEvent'.status = "401")
     /\ (appPc = "ready" /\ appPc' = "ready" /\ user # None /\ user' = None) =>
          lastEvent'.op = "logout"]_vars

\* A signed-in user's chat request was answered with 401: the token is gone
\* and the page, still authenticated, is being left.
C20_Witness ==
  /\ lastEvent.op = "chat"
  /\ lastEvent.status = "401"
  /\ IsAuthenticated(user)
  /\ storage.authToken = None
  /\ navPending

\* C21 (as stated): the stored bearer token changes only in a step of login,
\* signup or logout that completes; no other step, the response interceptors
\* included, changes it.
C21_TokenWrittenOnlyBySessionCalls ==
  [][storage'.authToken # storage.authToken =>
       \/ (lastEvent'.op \in {"login", "signup"} /\ lastEvent'.status = "ok")
       \/ (lastEvent'.op = "logout" /\ lastEvent'.status # "sent"
                                    /\ lastEvent'.status # "401")]_vars

\* C21 (amended): the stored bearer token is set only by a login or signup
\* that succeeds and removed only by logout and by the 401 teardown of the
\* auth and chat response interceptors; every other step leaves it as it was.
C21_TokenWrittenOnlyBySessionCallsOr401 ==
  [][storage'.authToken # storage.authToken =>
       \/ /\ lastEvent'.op \in {"login", "signup"}
          /\ lastEvent'.status = "ok"
          /\ storage'.authToken = lastEvent'.tok
       \/ /\ lastEvent'.op = "logout"
          /\ lastEvent'.status # "sent"
          /\ storage'.authToken = None
       \/ /\ lastEvent'.status = "401"
          /\ lastEvent'.client \in {"auth", "chat"}
          /\ storage'.authToken = None]_vars

\* A failed chat request that was not answered with 401 left the token of the
\* session in storage.
C21_Witness ==
  /\ lastEvent.op = "chat"
  /\ lastEvent.status = "err"
  /\ storage.authToken # None
  /\ IsAuthenticated(user)

\* C24: when the backend rejects a dashboard-catalog request with a response
\* that carries a message, the error text of the list screen is that message;
\* when there was no response the text says the server could not be reached.
C24_CatalogErrorIsBackendMessage ==
  (lastEvent.op = "catalog" /\ lastEvent.status \in {"401", "err"}
                            /\ lastEvent.data # Blank
                            /\ listPc = "error") =>
    lastEvent.text = lastEvent.data

C26_PlaceholderOnlyDuringInitialCheck ==
  (appPc = "ready" /\ IsAuthenticated(user) /\ route \in Protected) =>
    Shown(route, user, isLoading) # "spinner"

\* C27: the step after a logout has cleared the session never writes a token
\* or a user record unless it belongs to a login or signup started after that
\* logout; the answer to a login or signup that was in flight when logout ran
\* writes nothing.
C27_NoSessionWriteAfterLogout ==
  [][(lastEvent.op = "logout" /\ lastEvent.status \in Statuses) =>
       (storage' = storage /\ user' = user)]_vars

\* C28: a refresh token in client storage never belongs to another session
\* than the stored bearer token (the model issues the refresh token of the
\* session with bearer token t as t).
C28_RefreshTokenOfCurrentSession ==
  (storage.refreshToken # None /\ storage.authToken # None) =>
    storage.refreshToken = storage.authToken

\* C29: a login or signup form submitted with valid phone-based fields (a
\* phone, a password of at least 6 characters and, for signup, a username of
\* at least 3 characters and a matching confirmation) passes validation and
\* calls the auth store's operation; validation reports an issue only for a
\* key the form data has.
C29_ValidPhoneFormIsSubmitted ==
  LET data == lastEvent.form
      valid == /\ "phone" \in DOMAIN data
               /\ Len(data.password) >= 6
               /\ lastEvent.op = "signup" =>
                    /\ Len(data.username) >= 3
                    /\ data.password_confirm = data.password
  IN (lastEvent.op \in {"login", "signup"}
        /\ lastEvent.status \in {"sent", "invalid"}) =>
       /\ lastEvent.issues \subseteq DOMAIN data
       /\ valid => lastEvent.status = "sent"

\* C30: in every reachable transcript the ids of the chat turns are pairwise
\* distinct.
C30_TurnIdsDistinct ==
  \A i, j \in 1..Len(messages) :
    i # j => messages[i].id # messages[j].id

====
